---- MODULE Spec2Model ----
(***************************************************************************)
(* Model of package health (src/health.go): a Service holding a response   *)
(* template and an ordered list of DetailsProviders, and its HTTP Handler. *)
(* Every request is one invocation of Service.Handler, run by the          *)
(* transport in a goroutine of its own; the handler's statements that      *)
(* touch the shared Service are separate steps, so that requests           *)
(* interleave the way goroutines do.                                       *)
(***************************************************************************)
EXTENDS Integers, Sequences, FiniteSets, TLC

\* ------------------------------------------------------------------ bounds
\* Number of requests the transport hands to the handler.
MaxRequests == 2
\* Longest provider list given to New.
MaxProviders == 2

Requests == 1..MaxRequests

\* ------------------------------------------------------- program constants
Pass == "pass"
Fail == "fail"
Warn == "warn"

MethodGet == "GET"
MethodHead == "HEAD"
MethodOptions == "OPTIONS"
\* The methods the transport may deliver.
Methods == {MethodOptions, MethodGet, MethodHead, "POST", "PUT", "DELETE"}

StatusOK == 200
StatusMethodNotAllowed == 405

ApplicationHealthJson == "application/health+json"
AllowValue == "OPTIONS, GET, HEAD"
CacheControlValue == "max-age=604800"

\* ------------------------------------------------------------- data model
\* A nil interface{} in Details.ObservedValue.
NilValue == -1
\* A nil map reference in Health.Details.
NilRef == -1
\* The reference of the map the caller put into the template given to New.
CallerRef == 0

EmptyMap == <<>>
Keys == {"k1", "k2"}

\* type Details struct: the fields the handler's callers populate here.
Details(cid, val, st) ==
  [ComponentID |-> cid, ObservedValue |-> val, Status |-> st, Output |-> ""]

\* map lookup m[k]: the zero value (a nil slice) when the key is absent.
MapGet(m, k) == IF k \in DOMAIN m THEN m[k] ELSE <<>>

\* map assignment m[k] = v.
MapPut(m, k, v) == [x \in (DOMAIN m) \cup {k} |-> IF x = k THEN v ELSE m[x]]

\* ------------------------------------------------------ the collaborators
\* DetailsProvider implementations handed to New.  kind "static" returns the
\* same mapping on every call, "counter" returns an entry carrying the number
\* of the call (a distinct value per call), "panic" fails inside
\* HealthDetails.  authorize is what AuthorizeHealth answers for any request.
ProviderA ==
  [name |-> "A", kind |-> "static", authorize |-> FALSE,
   details |-> ("k1" :> <<Details("A", NilValue, Fail), Details("", 0, Pass)>>
                @@ "k2" :> <<Details("A", 7, Warn)>>)]
ProviderC ==
  [name |-> "C", kind |-> "counter", authorize |-> TRUE, details |-> EmptyMap]
ProviderP ==
  [name |-> "P", kind |-> "panic", authorize |-> TRUE, details |-> EmptyMap]
ProviderPool == {ProviderA, ProviderC, ProviderP}

\* DetailsProvider.HealthDetails of provider p, on its n-th call overall.
HealthDetails(p, n) ==
  IF p.kind = "counter" THEN "k1" :> <<Details(p.name, n, Pass)>> ELSE p.details

\* Whether HealthDetails of provider p panics.
HealthDetailsPanics(p) == p.kind = "panic"

\* DetailsProvider.AuthorizeHealth of provider p for request r.
AuthorizeHealth(p, r) == p.authorize

\* Ordered provider lists New may be given.
ProviderLists == UNION {[1..n -> ProviderPool] : n \in 0..MaxProviders}

\* ----------------------------------------------------------- the template
\* Health values a caller may pass to New.  Details holds a map reference.
TemplateZero ==
  [Status |-> "", Version |-> "", ReleaseID |-> "", Notes |-> <<>>,
   Output |-> "", Details |-> NilRef, Links |-> EmptyMap, ServiceID |-> "",
   Description |-> ""]
TemplateFull ==
  [Status |-> Fail, Version |-> "1", ReleaseID |-> "1.0.0-SNAPSHOT",
   Notes |-> <<"n">>, Output |-> "down", Details |-> CallerRef,
   Links |-> ("self" :> "/health"), ServiceID |-> "svc",
   Description |-> "d"]
Templates == {TemplateZero, TemplateFull}

\* The content of the map the caller put into TemplateFull.Details.
CallerDetails == "k2" :> <<Details("stale", NilValue, Warn)>>

VARIABLES
  template,          \* Service.template (Details is a map reference)
  detailsProviders,  \* Service.detailsProviders
  heap,              \* the maps allocated so far, by reference
  given,             \* the template and providers New was called with
  ncalls,            \* the providers' own state: HealthDetails calls so far
  crashed,           \* the runtime aborted the process (fatal error)
  pc,                \* each request's position in Handler
  method,            \* r.Method of each request
  resp,              \* each request's ResponseWriter: header, code, body
  idx,               \* position of the range over h.detailsProviders
  detailsMap,        \* the local detailsMap
  pending,           \* keys of detailsMap the inner range has yet to visit
  cur,               \* the inner range's detailsKey, the map operand and slice read
  returned,          \* what HealthDetails returned to each request, in order
  calls              \* provider operations each request invoked, in order

vars == <<template, detailsProviders, heap, given, ncalls, crashed, pc, method,
          resp, idx, detailsMap, pending, cur, returned, calls>>

shared == <<template, heap>>
locals == <<idx, detailsMap, pending, cur, returned, calls>>

NoCur == [key |-> "", ref |-> NilRef, old |-> <<>>]

\* An http.ResponseWriter nothing was written to.
NewResponse ==
  [header |-> [ContentType |-> <<>>, Allow |-> <<>>, CacheControl |-> <<>>],
   code |-> 0, body |-> <<>>]

\* func New: the Service after construction, no request delivered yet.
New(t, ps) ==
  /\ template = t
  /\ detailsProviders = ps
  /\ given = [template |-> t, detailsProviders |-> ps]
  /\ heap = [m \in 0..MaxRequests |->
               IF m = CallerRef /\ t.Details = CallerRef THEN CallerDetails
               ELSE EmptyMap]

Init ==
  /\ \E t \in Templates, ps \in ProviderLists : New(t, ps)
  /\ ncalls = 0
  /\ crashed = FALSE
  /\ pc = [r \in Requests |-> "idle"]
  /\ method = [r \in Requests |-> ""]
  /\ resp = [r \in Requests |-> NewResponse]
  /\ idx = [r \in Requests |-> 0]
  /\ detailsMap = [r \in Requests |-> EmptyMap]
  /\ pending = [r \in Requests |-> {}]
  /\ cur = [r \in Requests |-> NoCur]
  /\ returned = [r \in Requests |-> <<>>]
  /\ calls = [r \in Requests |-> <<>>]

\* ------------------------------------------------------- JSON serialization
\* The names among fs (<<name, omitempty, empty>> triples in struct order)
\* that encoding/json emits: a field tagged omitempty is left out when its
\* value is empty (zero length, "", nil).
Emitted(fs) ==
  LET keep(f) == ~(f[2] /\ f[3])
      kept == SelectSeq(fs, keep)
  IN  [i \in 1..Len(kept) |-> kept[i][1]]

\* json encoding of one Details value, by its struct tags (lines 130-167).
EncodeDetails(d) ==
  [names |-> Emitted(<<
      <<"componentId", TRUE, d.ComponentID = "">>,
      <<"observedValue", TRUE, d.ObservedValue = NilValue>>,
      <<"status", FALSE, d.Status = "">>,
      <<"output", TRUE, d.Output = "">> >>),
   componentId |-> d.ComponentID,
   observedValue |-> d.ObservedValue,
   status |-> d.Status,
   output |-> d.Output]

\* json encoding of a map[string][]Details value.
EncodeDetailsMap(m) ==
  [k \in DOMAIN m |-> [i \in 1..Len(m[k]) |-> EncodeDetails(m[k][i])]]

\* An encoder whose details field lacks the omitempty tag.
EncodeHealth_NoOmitEmpty(h, m) ==
  [names |-> Emitted(<<
      <<"status", FALSE, h.Status = "">>,
      <<"version", TRUE, h.Version = "">>,
      <<"releaseId", TRUE, h.ReleaseID = "">>,
      <<"notes", TRUE, Len(h.Notes) = 0>>,
      <<"output", TRUE, h.Output = "">>,
      <<"details", FALSE, DOMAIN m = {}>>,
      <<"links", TRUE, DOMAIN h.Links = {}>>,
      <<"serviceId", TRUE, h.ServiceID = "">>,
      <<"description", TRUE, h.Description = "">> >>),
   status |-> h.Status,
   version |-> h.Version,
   releaseId |-> h.ReleaseID,
   notes |-> h.Notes,
   output |-> h.Output,
   details |-> EncodeDetailsMap(m),
   links |-> h.Links,
   serviceId |-> h.ServiceID,
   description |-> h.Description]

\* json encoding of a Health value h whose Details map holds m, by its
\* struct tags (lines 67-101): the document written as the response body.
EncodeHealth(h, m) ==
  [names |-> Emitted(<<
      <<"status", FALSE, h.Status = "">>,
      <<"version", TRUE, h.Version = "">>,
      <<"releaseId", TRUE, h.ReleaseID = "">>,
      <<"notes", TRUE, Len(h.Notes) = 0>>,
      <<"output", TRUE, h.Output = "">>,
      <<"details", TRUE, DOMAIN m = {}>>,
      <<"links", TRUE, DOMAIN h.Links = {}>>,
      <<"serviceId", TRUE, h.ServiceID = "">>,
      <<"description", TRUE, h.Description = "">> >>),
   status |-> h.Status,
   version |-> h.Version,
   releaseId |-> h.ReleaseID,
   notes |-> h.Notes,
   output |-> h.Output,
   details |-> EncodeDetailsMap(m),
   links |-> h.Links,
   serviceId |-> h.ServiceID,
   description |-> h.Description]

\* The map a reference points to; a nil map reads as empty.
Deref(ref) == IF ref = NilRef THEN EmptyMap ELSE heap[ref]

\* --------------------------------------------------------- Service.Handler
\* A handler that sets the Content-Type header nowhere.
HandlerEntry_NoContentType(r) ==
  /\ ~crashed
  /\ pc[r] = "idle"
  /\ \A q \in Requests : q < r => pc[q] # "idle"
  /\ \E m \in Methods : method' = [method EXCEPT ![r] = m]
  /\ pc' = [pc EXCEPT ![r] = "dispatch"]
  /\ UNCHANGED <<shared, detailsProviders, given, ncalls, crashed, resp, locals>>

\* A handler that resets the template's status before it looks at the method.
HandlerEntry_SetsStatus(r) ==
  /\ ~crashed
  /\ pc[r] = "idle"
  /\ \A q \in Requests : q < r => pc[q] # "idle"
  /\ \E m \in Methods : method' = [method EXCEPT ![r] = m]
  /\ resp' = [resp EXCEPT ![r].header.ContentType =
                            Append(@, ApplicationHealthJson)]
  /\ template' = [template EXCEPT !.Status = Pass]
  /\ pc' = [pc EXCEPT ![r] = "dispatch"]
  /\ UNCHANGED <<heap, detailsProviders, given, ncalls, crashed, locals>>

\* Line 196-197: the transport invokes Handler with a request of some method;
\* the handler adds the Content-Type header.  Requests are numbered in their
\* order of arrival.
HandlerEntry(r) ==
  /\ ~crashed
  /\ pc[r] = "idle"
  /\ \A q \in Requests : q < r => pc[q] # "idle"
  /\ \E m \in Methods : method' = [method EXCEPT ![r] = m]
  /\ resp' = [resp EXCEPT ![r].header.ContentType =
                            Append(@, ApplicationHealthJson)]
  /\ pc' = [pc EXCEPT ![r] = "dispatch"]
  /\ UNCHANGED <<shared, detailsProviders, given, ncalls, crashed, locals>>

\* An OPTIONS branch that lists the allowed methods in another order.
Options_AllowReordered(r) ==
  /\ ~crashed
  /\ pc[r] = "dispatch"
  /\ method[r] = MethodOptions
  /\ resp' = [resp EXCEPT ![r].header.Allow = <<"GET, HEAD, OPTIONS">>,
                          ![r].header.CacheControl = <<CacheControlValue>>,
                          ![r].code = StatusOK]
  /\ pc' = [pc EXCEPT ![r] = "done"]
  /\ UNCHANGED <<shared, detailsProviders, given, ncalls, crashed, method, locals>>

\* Lines 198-203: OPTIONS.
Options(r) ==
  /\ ~crashed
  /\ pc[r] = "dispatch"
  /\ method[r] = MethodOptions
  /\ resp' = [resp EXCEPT ![r].header.Allow = <<AllowValue>>,
                          ![r].header.CacheControl = <<CacheControlValue>>,
                          ![r].code = StatusOK]
  /\ pc' = [pc EXCEPT ![r] = "done"]
  /\ UNCHANGED <<shared, detailsProviders, given, ncalls, crashed, method, locals>>

\* A 405 branch that lacks its return statement and falls through to line 209.
MethodNotAllowed_NoReturn(r) ==
  /\ ~crashed
  /\ pc[r] = "dispatch"
  /\ method[r] # MethodOptions
  /\ method[r] # MethodGet /\ method[r] # MethodHead
  /\ resp' = [resp EXCEPT ![r].code = StatusMethodNotAllowed]
  /\ pc' = [pc EXCEPT ![r] = "status"]
  /\ UNCHANGED <<shared, detailsProviders, given, ncalls, crashed, method, locals>>

\* Lines 204-207: any method other than OPTIONS, GET, HEAD.
MethodNotAllowed(r) ==
  /\ ~crashed
  /\ pc[r] = "dispatch"
  /\ method[r] # MethodOptions
  /\ method[r] # MethodGet /\ method[r] # MethodHead
  /\ resp' = [resp EXCEPT ![r].code = StatusMethodNotAllowed]
  /\ pc' = [pc EXCEPT ![r] = "done"]
  /\ UNCHANGED <<shared, detailsProviders, given, ncalls, crashed, method, locals>>

\* A read branch that derives the status code from the template's status.
WriteHeaderOK_FromStatus(r) ==
  /\ ~crashed
  /\ pc[r] = "dispatch"
  /\ method[r] # MethodOptions
  /\ ~(method[r] # MethodGet /\ method[r] # MethodHead)
  /\ resp' = [resp EXCEPT ![r].code = IF template.Status = Fail THEN 503 ELSE StatusOK]
  /\ pc' = [pc EXCEPT ![r] = "status"]
  /\ UNCHANGED <<shared, detailsProviders, given, ncalls, crashed, method, locals>>

\* Line 208: GET or HEAD, w.WriteHeader(http.StatusOK).
WriteHeaderOK(r) ==
  /\ ~crashed
  /\ pc[r] = "dispatch"
  /\ method[r] # MethodOptions
  /\ ~(method[r] # MethodGet /\ method[r] # MethodHead)
  /\ resp' = [resp EXCEPT ![r].code = StatusOK]
  /\ pc' = [pc EXCEPT ![r] = "status"]
  /\ UNCHANGED <<shared, detailsProviders, given, ncalls, crashed, method, locals>>

\* A line 209 that replaces the whole template by a fresh Health value.
SetStatus_ResetTemplate(r) ==
  /\ ~crashed
  /\ pc[r] = "status"
  /\ template' = [TemplateZero EXCEPT !.Status = Pass, !.Details = template.Details]
  /\ pc' = [pc EXCEPT ![r] = "make"]
  /\ UNCHANGED <<heap, detailsProviders, given, ncalls, crashed, method, resp, locals>>

\* A handler without line 209: the template keeps the status it has.
SetStatus_KeepStatus(r) ==
  /\ ~crashed
  /\ pc[r] = "status"
  /\ pc' = [pc EXCEPT ![r] = "make"]
  /\ UNCHANGED <<shared, detailsProviders, given, ncalls, crashed, method, resp, locals>>

\* Line 209: h.template.Status = Pass.
SetStatus(r) ==
  /\ ~crashed
  /\ pc[r] = "status"
  /\ template' = [template EXCEPT !.Status = Pass]
  /\ pc' = [pc EXCEPT ![r] = "make"]
  /\ UNCHANGED <<heap, detailsProviders, given, ncalls, crashed, method, resp, locals>>

\* A range over h.detailsProviders that stops one provider early.
RangeProviders_SkipLast(i) == IF i < Len(detailsProviders) THEN "loop" ELSE "encode"

\* Where the range over h.detailsProviders (line 211) goes once provider i - 1
\* is dealt with: the next provider, or line 217 when there is none left.
RangeProviders(i) == IF i <= Len(detailsProviders) THEN "loop" ELSE "encode"

\* A line 210 that allocates a map only when the template holds none, and
\* otherwise merges into the map left by the previous request.
MakeDetails_KeepMap(r) ==
  /\ ~crashed
  /\ pc[r] = "make"
  /\ IF template.Details = NilRef
     THEN /\ heap' = [heap EXCEPT ![r] = EmptyMap]
          /\ template' = [template EXCEPT !.Details = r]
     ELSE UNCHANGED <<heap, template>>
  /\ idx' = [idx EXCEPT ![r] = 1]
  /\ pc' = [pc EXCEPT ![r] = RangeProviders(1)]
  /\ UNCHANGED <<detailsProviders, given, ncalls, crashed, method, resp,
                 detailsMap, pending, cur, returned, calls>>

\* Line 210: h.template.Details = make(map[string][]Details); the range over
\* h.detailsProviders of line 211 starts.
MakeDetails(r) ==
  /\ ~crashed
  /\ pc[r] = "make"
  /\ heap' = [heap EXCEPT ![r] = EmptyMap]
  /\ template' = [template EXCEPT !.Details = r]
  /\ idx' = [idx EXCEPT ![r] = 1]
  /\ pc' = [pc EXCEPT ![r] = RangeProviders(1)]
  /\ UNCHANGED <<detailsProviders, given, ncalls, crashed, method, resp,
                 detailsMap, pending, cur, returned, calls>>

\* Line 212: detailsMap := detailsProvider.HealthDetails(), and the range over
\* detailsMap of line 213 starts.  A panic inside the provider unwinds the
\* handler: nothing after line 212 runs for this request.
CallHealthDetails(r) ==
  /\ ~crashed
  /\ pc[r] = "loop"
  /\ LET p == detailsProviders[idx[r]]
         dm == HealthDetails(p, ncalls + 1)
     IN  /\ calls' = [calls EXCEPT ![r] = Append(@, <<"HealthDetails", idx[r]>>)]
         /\ IF HealthDetailsPanics(p)
            THEN /\ pc' = [pc EXCEPT ![r] = "panicked"]
                 /\ UNCHANGED <<ncalls, returned, detailsMap, pending, idx>>
            ELSE /\ ncalls' = ncalls + 1
                 /\ returned' = [returned EXCEPT ![r] = Append(@, dm)]
                 /\ IF DOMAIN dm = {}
                    THEN /\ idx' = [idx EXCEPT ![r] = @ + 1]
                         /\ pc' = [pc EXCEPT ![r] = RangeProviders(idx[r] + 1)]
                         /\ UNCHANGED <<detailsMap, pending>>
                    ELSE /\ detailsMap' = [detailsMap EXCEPT ![r] = dm]
                         /\ pending' = [pending EXCEPT ![r] = DOMAIN dm]
                         /\ pc' = [pc EXCEPT ![r] = "range"]
                         /\ UNCHANGED idx
  /\ UNCHANGED <<shared, detailsProviders, given, crashed, method, resp, cur>>

\* A merge that overwrites the slice stored under the key.
AppendDetails_Overwrite(old, details) == details

\* Line 214: append(h.template.Details[detailsKey], details...).
AppendDetails(old, details) == old \o details

\* Lines 213-214, first half: the range yields some key not yet visited (map
\* iteration order is unspecified); the operands of
\*   h.template.Details[detailsKey] = append(h.template.Details[detailsKey], details...)
\* are evaluated: the map h.template.Details refers to now, and its slice.
MergeRead(r) ==
  /\ ~crashed
  /\ pc[r] = "range"
  /\ \E k \in pending[r] :
       cur' = [cur EXCEPT ![r] = [key |-> k, ref |-> template.Details,
                                  old |-> MapGet(Deref(template.Details), k)]]
  /\ pc' = [pc EXCEPT ![r] = "write"]
  /\ UNCHANGED <<shared, detailsProviders, given, ncalls, crashed, method, resp,
                 idx, detailsMap, pending, returned, calls>>

\* Line 214, second half: the appended slice is stored under the key, in the
\* map evaluated by MergeRead; then the next key, or the next provider.
MergeWrite(r) ==
  /\ ~crashed
  /\ pc[r] = "write"
  /\ LET k == cur[r].key
         m == cur[r].ref
         rest == pending[r] \ {k}
     IN  /\ heap' = [heap EXCEPT ![m] = MapPut(@, k, AppendDetails(cur[r].old, detailsMap[r][k]))]
         /\ pending' = [pending EXCEPT ![r] = rest]
         /\ cur' = [cur EXCEPT ![r] = NoCur]
         /\ IF rest = {}
            THEN /\ idx' = [idx EXCEPT ![r] = @ + 1]
                 /\ detailsMap' = [detailsMap EXCEPT ![r] = EmptyMap]
                 /\ pc' = [pc EXCEPT ![r] = RangeProviders(idx[r] + 1)]
            ELSE /\ pc' = [pc EXCEPT ![r] = "range"]
                 /\ UNCHANGED <<idx, detailsMap>>
  /\ UNCHANGED <<template, detailsProviders, given, ncalls, crashed, method, resp,
                 returned, calls>>

\* A line 217 that writes no document for a HEAD request.
Encode_SkipHead(r) ==
  /\ ~crashed
  /\ pc[r] = "encode"
  /\ resp' = [resp EXCEPT ![r].body =
                IF method[r] = MethodHead THEN @
                ELSE Append(@, EncodeHealth(template, Deref(template.Details)))]
  /\ pc' = [pc EXCEPT ![r] = "done"]
  /\ UNCHANGED <<shared, detailsProviders, given, ncalls, crashed, method, locals>>

\* Line 217: _ = json.NewEncoder(w).Encode(h.template).
Encode(r) ==
  /\ ~crashed
  /\ pc[r] = "encode"
  /\ resp' = [resp EXCEPT ![r].body =
                Append(@, EncodeHealth(template, Deref(template.Details)))]
  /\ pc' = [pc EXCEPT ![r] = "done"]
  /\ UNCHANGED <<shared, detailsProviders, given, ncalls, crashed, method, locals>>

\* Two goroutines inside line 214 on the same map, or one inside line 214
\* while another encodes that map at line 217, is an unsynchronised map
\* access: the Go runtime may detect it and abort the whole process
\* ("fatal error: concurrent map writes"), or not.
ConcurrentMapFault(r) ==
  /\ ~crashed
  /\ pc[r] = "write"
  /\ \E q \in Requests \ {r} :
       \/ pc[q] = "write" /\ cur[q].ref = cur[r].ref
       \/ pc[q] = "encode" /\ template.Details = cur[r].ref
  /\ crashed' = TRUE
  /\ UNCHANGED <<shared, detailsProviders, given, ncalls, pc, method, resp, locals>>

Step(r) ==
  \/ Options(r)
  \/ MethodNotAllowed(r)
  \/ WriteHeaderOK(r)
  \/ SetStatus(r)
  \/ MakeDetails(r)
  \/ CallHealthDetails(r)
  \/ MergeRead(r)
  \/ MergeWrite(r)
  \/ Encode(r)

\* The transport runs the handler of every request in its own goroutine.
Next ==
  \E r \in Requests : HandlerEntry(r) \/ Step(r) \/ ConcurrentMapFault(r)

Spec == Init /\ [][Next]_vars

\* Whether request r's handler has returned (or was unwound by a panic).
Returned(r) == pc[r] \in {"idle", "done", "panicked"}

\* A request delivered while no other request is being handled.
HandlerEntryAlone(r) ==
  /\ \A q \in Requests \ {r} : Returned(q)
  /\ HandlerEntry(r)

\* The transport delivers the requests one after the other.
NextSeq ==
  \E r \in Requests : HandlerEntryAlone(r) \/ Step(r)

SpecSeq == Init /\ [][NextSeq]_vars

\* ================================================================ claims
IsGet(r) == method[r] = MethodGet
Done(r) == pc[r] = "done"
\* The document request r's handler wrote as the body.
Body(r) == resp[r].body[1]
HasField(doc, n) == \E i \in 1..Len(doc.names) : doc.names[i] = n
\* A GET request whose handler ran to its end.
GetDone(r) == IsGet(r) /\ Done(r) /\ Len(resp[r].body) = 1

\* The entries, as serialized, in the details mapping m.
MapEntries(m) ==
  UNION {{EncodeDetails(m[k][i]) : i \in 1..Len(m[k])} : k \in DOMAIN m}

\* The entries, as serialized, that HealthDetails returned to request r.
ReturnedEntries(r) ==
  UNION {MapEntries(returned[r][j]) : j \in 1..Len(returned[r])}

\* The entries, as serialized, in the details of document doc.
DocEntries(doc) ==
  UNION {{doc.details[k][i] : i \in 1..Len(doc.details[k])} : k \in DOMAIN doc.details}

DistinctPerCall == \A j \in 1..Len(detailsProviders) : detailsProviders[j].kind = "counter"

\* C1: with providers that return a distinct value on every call, the details
\* of every GET response hold only entries that HealthDetails returned to
\* that same request, however the requests interleave.
C1_NoCrossContamination ==
  \A r \in Requests :
    (GetDone(r) /\ DistinctPerCall) => DocEntries(Body(r)) \subseteq ReturnedEntries(r)

\* The concatenation, in order, of the slices the mappings of rets hold under k.
RECURSIVE ConcatKey(_, _)
ConcatKey(rets, k) ==
  IF rets = <<>> THEN <<>> ELSE MapGet(Head(rets), k) \o ConcatKey(Tail(rets), k)

\* The mapping the claim expects from the provider outputs rets.
ExpectedDetails(rets) ==
  [k \in UNION {DOMAIN rets[j] : j \in 1..Len(rets)} |-> ConcatKey(rets, k)]

\* C2: a GET request handled without interleaving answers with a details
\* mapping whose keys are the union of the keys the providers returned and
\* whose sequence under each key is the concatenation, in registration order,
\* of what each provider returned under it; every provider was asked.
C2_MergeIsConcatenation ==
  \A r \in Requests :
    GetDone(r) =>
      /\ Len(returned[r]) = Len(detailsProviders)
      /\ Body(r).details = EncodeDetailsMap(ExpectedDetails(returned[r]))

\* C2 witness: providers A then C share key k1; the response holds A's two
\* entries followed by C's one under k1, and A's entry under k2.
C2_Witness ==
  \E r \in Requests :
    /\ GetDone(r)
    /\ detailsProviders = <<ProviderA, ProviderC>>
    /\ DOMAIN Body(r).details = {"k1", "k2"}
    /\ Len(Body(r).details["k1"]) = 3
    /\ Body(r).details["k1"][3].componentId = "C"

\* C3: no GET response holds entries of a provider whose AuthorizeHealth
\* answers false for the request.
C3_AuthorizationGatesDetails ==
  \A r \in Requests :
    GetDone(r) =>
      \A j \in 1..Len(detailsProviders) :
        ~AuthorizeHealth(detailsProviders[j], r) =>
          \A k \in DOMAIN detailsProviders[j].details :
            \A i \in 1..Len(detailsProviders[j].details[k]) :
              EncodeDetails(detailsProviders[j].details[k][i]) \notin DocEntries(Body(r))

ZeroProviders == Len(given.detailsProviders) = 0

\* C4 as claimed: with zero providers the body of every GET response has a
\* details field that is present and empty, and status pass.
C4_DetailsPresentAndEmpty ==
  \A r \in Requests :
    (GetDone(r) /\ ZeroProviders) =>
      /\ HasField(Body(r), "details")
      /\ Body(r).details = EmptyMap
      /\ Body(r).status = "pass"

\* C4 amended: with zero providers the body of every GET response has
\* status pass and no details field: the empty mapping the handler built is
\* omitted by the omitempty tag.
C4_EmptyDetailsOmitted ==
  \A r \in Requests :
    (GetDone(r) /\ ZeroProviders) =>
      /\ ~HasField(Body(r), "details")
      /\ Body(r).details = EmptyMap
      /\ HasField(Body(r), "status")
      /\ Body(r).status = "pass"

\* C4 witness: a GET answered by a service built with no providers from a
\* template that carried status fail and a non-empty details mapping.
C4_Witness ==
  \E r \in Requests :
    /\ GetDone(r)
    /\ ZeroProviders
    /\ given.template.Status = "fail"
    /\ given.template.Details = CallerRef

\* C5: a provider failing inside HealthDetails does not unwind the handler:
\* no request ends without its handler reaching the end.
C5_ProviderFailureIsolated ==
  \A r \in Requests : pc[r] # "panicked"

\* C6: once the handler of a GET request has chosen its branch, the status
\* code written is 200, whatever the providers return and whatever status
\* the template was constructed with.
C6_GetStatusIs200 ==
  \A r \in Requests :
    (IsGet(r) /\ pc[r] \notin {"idle", "dispatch"}) => resp[r].code = 200

\* C6 witness: a GET answered 200 by a service whose template said fail and
\* whose response carries a detail entry with status fail.
C6_Witness ==
  \E r \in Requests :
    /\ GetDone(r)
    /\ given.template.Status = "fail"
    /\ \E e \in DocEntries(Body(r)) : e.status = "fail"
    /\ resp[r].code = 200

\* C7: an OPTIONS request is answered 200 with no body, Allow set to exactly
\* "OPTIONS, GET, HEAD" and Cache-Control to "max-age=604800".
C7_OptionsResponse ==
  \A r \in Requests :
    (method[r] = "OPTIONS" /\ pc[r] # "dispatch") =>
      /\ pc[r] = "done"
      /\ resp[r].code = 200
      /\ resp[r].body = <<>>
      /\ resp[r].header.Allow = <<"OPTIONS, GET, HEAD">>
      /\ resp[r].header.CacheControl = <<"max-age=604800">>

\* C7 witness: an answered OPTIONS request.
C7_Witness ==
  \E r \in Requests : method[r] = "OPTIONS" /\ Done(r) /\ resp[r].code = 200

\* C8: a request whose method is none of OPTIONS, GET, HEAD is answered 405
\* with no body.
C8_OtherMethods405 ==
  \A r \in Requests :
    (method[r] \in {"POST", "PUT", "DELETE"} /\ pc[r] # "dispatch") =>
      /\ pc[r] = "done"
      /\ resp[r].code = 405
      /\ resp[r].body = <<>>

\* C8 witness: an answered POST and an answered DELETE.
C8_Witness ==
  \E r, q \in Requests :
    /\ method[r] = "POST" /\ Done(r)
    /\ method[q] = "DELETE" /\ Done(q)

\* C9: two GET requests handled one after the other, to which the providers
\* returned the same output, get equal responses: same code, same headers,
\* same document.
C9_ConsecutiveGetsEqual ==
  \A r, q \in Requests :
    (GetDone(r) /\ GetDone(q) /\ returned[r] = returned[q]) => resp[r] = resp[q]

\* C9 witness: two answered GETs to which provider A returned its entries.
C9_Witness ==
  \E r, q \in Requests :
    /\ r # q
    /\ GetDone(r) /\ GetDone(q)
    /\ returned[r] = returned[q]
    /\ Len(returned[r]) > 0
    /\ "k1" \in DOMAIN Body(q).details

\* C10: when no request is being handled, the stored template equals the
\* template given to New: its status and the content of its details.
C10_TemplateUnchanged ==
  (\A r \in Requests : Returned(r)) =>
    /\ template.Status = given.template.Status
    /\ (template.Details = NilRef) = (given.template.Details = NilRef)
    /\ Deref(template.Details) =
         (IF given.template.Details = CallerRef THEN CallerDetails ELSE EmptyMap)

\* The template's fields that no statement of the handler assigns.
StaticFields(t) ==
  [Version |-> t.Version, ReleaseID |-> t.ReleaseID, ServiceID |-> t.ServiceID,
   Description |-> t.Description, Notes |-> t.Notes, Output |-> t.Output,
   Links |-> t.Links]

\* C11: in every reachable state, whatever requests of whatever methods have
\* run or are running, the template's static fields (version, releaseId,
\* serviceId, description, notes, links, and output as well) and the provider
\* list are those given to New.
C11_StaticFieldsUnchanged ==
  /\ StaticFields(template) = StaticFields(given.template)
  /\ detailsProviders = given.detailsProviders

\* C11 witness: a populated template after a GET has written its status and
\* details while another request is inside the merge loop.
C11_Witness ==
  \E r, q \in Requests :
    /\ GetDone(r)
    /\ pc[q] \in {"range", "write"}
    /\ given.template.Version = "1"
    /\ template.Status # given.template.Status
    /\ template.Details # given.template.Details
    /\ Len(detailsProviders) = 2

\* C12: the top-level status in the body of every GET response is pass,
\* whatever status the template was constructed with and whatever statuses
\* the merged entries carry, however the requests interleave.
C12_BodyStatusIsPass ==
  \A r \in Requests :
    GetDone(r) => (HasField(Body(r), "status") /\ Body(r).status = "pass")

\* C12 witness: a GET answered while another request is being handled, by a
\* service whose template said fail, with a fail entry in the details.
C12_Witness ==
  \E r, q \in Requests :
    /\ GetDone(r)
    /\ ~Returned(q)
    /\ given.template.Status = "fail"
    /\ \E e \in DocEntries(Body(r)) : e.status = "fail"
    /\ Body(r).status = "pass"

\* C13: every response, on each branch of the handler, carries the header
\* Content-Type: application/health+json, and the header is there when the
\* status code is written.
C13_ContentTypeAlways ==
  \A r \in Requests :
    (pc[r] # "idle" \/ resp[r].code # 0 \/ resp[r].body # <<>>) =>
      resp[r].header.ContentType = <<"application/health+json">>

\* C13 witness: an answered unsupported method (405) and an answered HEAD.
C13_Witness ==
  \E r, q \in Requests :
    /\ method[r] = "PUT" /\ Done(r) /\ resp[r].code = 405
    /\ method[q] = "HEAD" /\ Done(q) /\ resp[q].code = 200

\* C14: under concurrent GET requests, every response's details hold, under
\* every key, all the entries HealthDetails returned to that same request.
C14_OwnContributionKept ==
  \A r \in Requests :
    GetDone(r) =>
      \A j \in 1..Len(returned[r]) :
        \A k \in DOMAIN returned[r][j] :
          /\ k \in DOMAIN Body(r).details
          /\ \A i \in 1..Len(returned[r][j][k]) :
               \E n \in 1..Len(Body(r).details[k]) :
                 Body(r).details[k][n] = EncodeDetails(returned[r][j][k][i])

IsRead(r) == method[r] \in {"GET", "HEAD"}

\* The provider calls of a request that has queried the first n providers.
ExpectedCalls(n) == [j \in 1..n |-> <<"HealthDetails", j>>]

\* C15: within a GET or HEAD request, HealthDetails is called on the
\* providers in registration order, each at most once and only after 200 was
\* written; the body is serialized only once every provider has been queried,
\* and a handler that reaches its end has queried each exactly once.
C15_ProvidersQueriedInOrder ==
  \A r \in Requests :
    IsRead(r) =>
      /\ Len(calls[r]) <= Len(detailsProviders)
      /\ calls[r] = ExpectedCalls(Len(calls[r]))
      /\ (calls[r] # <<>> => resp[r].code = 200)
      /\ (resp[r].body # <<>> => calls[r] = ExpectedCalls(Len(detailsProviders)))
      /\ (Done(r) => /\ calls[r] = ExpectedCalls(Len(detailsProviders))
                     /\ Len(resp[r].body) = 1)

\* C15 witness: an answered read request of a service with providers C then A.
C15_Witness ==
  \E r \in Requests :
    /\ IsRead(r) /\ Done(r)
    /\ detailsProviders = <<ProviderC, ProviderA>>
    /\ calls[r] = <<(<<"HealthDetails", 1>>), (<<"HealthDetails", 2>>)>>
    /\ Len(returned[r]) = 2

\* C16: a request with method OPTIONS or with an unsupported method invokes
\* no provider operation, and no step of its handler changes the template
\* (its status, its details map or that map's content).
C16_NoProviderNoTemplateWrite ==
  /\ [](\A r \in Requests :
          (pc[r] # "idle" /\ ~IsRead(r)) => (calls[r] = <<>> /\ returned[r] = <<>>))
  /\ [][\A r \in Requests :
          (pc'[r] # pc[r] /\ method'[r] \notin {"GET", "HEAD"}) =>
            (template' = template /\ heap' = heap /\ ncalls' = ncalls)]_vars

\* C16 witness: an answered OPTIONS and an answered DELETE, the template
\* still as New got it, with status fail.
C16_Witness ==
  \E r, q \in Requests :
    /\ method[r] = "OPTIONS" /\ Done(r)
    /\ method[q] = "DELETE" /\ Done(q)
    /\ given.template.Status = "fail"
    /\ template = given.template
    /\ Len(detailsProviders) > 0

\* C17: no GET response body has a top-level output field unless its status
\* is warn or fail.
C17_OutputOnlyWhenNotPass ==
  \A r \in Requests :
    (GetDone(r) /\ HasField(Body(r), "output")) => Body(r).status \in {"warn", "fail"}

\* C18: a HEAD request is handled like a GET: 200, and for the same provider
\* outputs the same headers, the same provider calls and the same document
\* handed to the response writer.
C18_HeadLikeGet ==
  /\ \A q \in Requests :
       /\ (method[q] = "HEAD" /\ pc[q] \notin {"idle", "dispatch"}) => resp[q].code = 200
       /\ (method[q] = "HEAD" /\ Done(q)) => Len(resp[q].body) = 1
  /\ \A r, q \in Requests :
       (/\ method[r] = "GET" /\ method[q] = "HEAD"
        /\ Done(r) /\ Done(q)
        /\ returned[r] = returned[q]) =>
         (resp[r] = resp[q] /\ calls[r] = calls[q])

\* C18 witness: an answered GET and an answered HEAD to which provider A
\* returned its entries.
C18_Witness ==
  \E r, q \in Requests :
    /\ method[r] = "GET" /\ method[q] = "HEAD"
    /\ Done(r) /\ Done(q)
    /\ returned[r] = returned[q]
    /\ Len(returned[r]) > 0
    /\ "k2" \in DOMAIN resp[q].body[1].details

NoProviderPanics ==
  \A j \in 1..Len(detailsProviders) : ~HealthDetailsPanics(detailsProviders[j])

\* C19: provided every HealthDetails call returns, no request is ever stuck:
\* a handler that has started and not yet returned can always take its next
\* step, whatever the other requests do, and a returned handler has written
\* a status code.
C19_NoRequestStuck ==
  NoProviderPanics =>
    \A r \in Requests :
      /\ (pc[r] \notin {"idle", "done"}) => ENABLED Step(r)
      /\ Done(r) => resp[r].code # 0
====
